---- MODULE Spec2Model ----
(***************************************************************************)
(* Render-command assembly of enter-core:                                  *)
(*   build_rendering_command  (engine/gfx/renderer/mod.rs, 57-131)         *)
(*   RenderingCommand::render (engine/gfx/renderer/mod.rs, 34-54)          *)
(* The frame buffer allocator, the host buffer, the pipeline provider, the *)
(* material and the renderer implementations live in sibling modules; they *)
(* are modelled from their contracts in spec.md sections 3 and 4.          *)
(***************************************************************************)
EXTENDS Integers, Sequences, FiniteSets, TLC

(* ---------------------------------------------------------------- bounds *)

\* Device buffers the pool can hand to a commit.
NumDeviceBuffers == 2

\* Largest number of semantic entries of a generated material layout.
MaxSemanticEntries == 2

\* Largest number of per-vertex buffers of a renderer.
MaxVertexBuffers == 2

\* Largest number of bind-group holders of a generated material.
MaxHolders == 2

\* Largest vertex count of a renderer.
MaxVertexCount == 3

(* --------------------------------------------------------------- options *)

\* Option<T>: the empty sequence is None, a one-element sequence is Some.
None == << >>
Some(x) == << x >>
IsSome(o) == Len(o) = 1
Unwrap(o) == o[1]

(* ----------------------------------------------------------------- bytes *)

\* Little-endian bytes of the f32 values the model uses (zerocopy::AsBytes of f32).
F32Bytes(v) ==
    CASE v = 0 -> << 0, 0, 0, 0 >>
      [] v = 1 -> << 0, 0, 128, 63 >>
      [] v = 2 -> << 0, 0, 0, 64 >>

\* as_bytes of a sequence of f32 components: the components' bytes in order.
AsBytes(vals) ==
    [i \in 1..(4 * Len(vals)) |-> F32Bytes(vals[((i - 1) \div 4) + 1])[((i - 1) % 4) + 1]]

\* The world matrices object_hierarchy.matrix(object_id) can return, as rows.
MatrixIds == {"identity", "scaled"}
MatrixRows(m) ==
    IF m = "identity"
    THEN << << 1, 0, 0, 0 >>, << 0, 1, 0, 0 >>, << 0, 0, 1, 0 >>, << 0, 0, 0, 1 >> >>
    ELSE << << 2, 0, 0, 1 >>, << 0, 2, 0, 2 >>, << 1, 0, 2, 0 >>, << 0, 0, 0, 1 >> >>

\* matrix.row(i), i in 0..3.
MatrixRow(m, i) == MatrixRows(m)[i + 1]

(* ------------------------------------------------------------- materials *)

KEY_TRANSFORM_ROW_0 == "KEY_TRANSFORM_ROW_0"
KEY_TRANSFORM_ROW_1 == "KEY_TRANSFORM_ROW_1"
KEY_TRANSFORM_ROW_2 == "KEY_TRANSFORM_ROW_2"
KEY_TRANSFORM_ROW_3 == "KEY_TRANSFORM_ROW_3"
KEY_CUSTOM == "KEY_CUSTOM"
\* Mutant: the match has no arm for row 2.
TransformKeys_WithoutRow2 ==
    {KEY_TRANSFORM_ROW_0, KEY_TRANSFORM_ROW_1, KEY_TRANSFORM_ROW_3}

TransformKeys ==
    {KEY_TRANSFORM_ROW_0, KEY_TRANSFORM_ROW_1, KEY_TRANSFORM_ROW_2, KEY_TRANSFORM_ROW_3}
SemanticKeys == TransformKeys \cup {KEY_CUSTOM}

\* VertexFormat::size() of the formats the model uses.
FormatSize(format) ==
    CASE format = "Float32" -> 4
      [] format = "Float32x2" -> 8
      [] format = "Float32x4" -> 16

\* A per-instance property value: its vertex format and its components.
ValueFormat(value) == IF Len(value) = 1 THEN "Float32" ELSE "Float32x4"
PropertyValues == { << 1 >>, << 2 >>, << 1, 2, 0, 1 >> }

\* Option<value> choices of a property.
PropertyValueOptions == {None} \cup {Some(v) : v \in PropertyValues}

\* bind_group_holders and bind_properties the assembly materials carry.
DefaultHolders == << [group |-> 0, bind_group |-> Some("bg0")] >>
DefaultBindProperties == [p \in {"albedo"} |-> [group_index |-> 0]]

\* A Material: the reflected per-instance input of its shader (stride, element
\* formats), semantic_inputs, per_instance_properties, bind_group_holders and
\* bind_properties.
MakeMaterial(stride, elements, semantic_inputs, properties) ==
    [stride |-> stride, elements |-> elements, semantic_inputs |-> semantic_inputs,
     per_instance_properties |-> properties,
     bind_group_holders |-> DefaultHolders, bind_properties |-> DefaultBindProperties]

InstanceEntry(index, offset) == [step_mode |-> "Instance", index |-> index, offset |-> offset]
VertexEntry(index, offset) == [step_mode |-> "Vertex", index |-> index, offset |-> offset]
NoProperties == [p \in {} |-> [offset |-> 0, value |-> None]]

\* Stride 64, the four transform rows at 0/16/32/48, no properties.
TransformLayout ==
    MakeMaterial(64, << "Float32x4", "Float32x4", "Float32x4", "Float32x4" >>,
        [k \in TransformKeys |->
            CASE k = KEY_TRANSFORM_ROW_0 -> InstanceEntry(0, 0)
              [] k = KEY_TRANSFORM_ROW_1 -> InstanceEntry(1, 16)
              [] k = KEY_TRANSFORM_ROW_2 -> InstanceEntry(2, 32)
              [] k = KEY_TRANSFORM_ROW_3 -> InstanceEntry(3, 48)],
        NoProperties)

\* A transform row, a renderer-defined semantic, a per-vertex entry and two
\* properties, one of them without a value.
TintLayout ==
    MakeMaterial(48, << "Float32x4", "Float32x2", "Float32x4" >>,
        [k \in {KEY_TRANSFORM_ROW_1, KEY_TRANSFORM_ROW_3, KEY_CUSTOM} |->
            CASE k = KEY_TRANSFORM_ROW_1 -> InstanceEntry(0, 0)
              [] k = KEY_TRANSFORM_ROW_3 -> VertexEntry(2, 0)
              [] k = KEY_CUSTOM -> InstanceEntry(1, 16)],
        [p \in {"tint", "alpha"} |->
            IF p = "tint" THEN [offset |-> 32, value |-> Some(<< 1, 2, 0, 1 >>)]
            ELSE [offset |-> 40, value |-> None]])

\* Two instance-step regions over the same bytes.
OverlapLayout ==
    MakeMaterial(32, << "Float32x4", "Float32x4" >>,
        [k \in {KEY_TRANSFORM_ROW_0, KEY_TRANSFORM_ROW_1} |->
            IF k = KEY_TRANSFORM_ROW_0 THEN InstanceEntry(0, 0) ELSE InstanceEntry(1, 0)],
        NoProperties)

\* A region that ends beyond the stride.
OutOfRangeLayout ==
    MakeMaterial(16, << "Float32x4" >>,
        [k \in {KEY_TRANSFORM_ROW_0} |-> InstanceEntry(0, 16)],
        NoProperties)

\* A transform row mapped onto a 4-byte attribute.
NarrowRowLayout ==
    MakeMaterial(16, << "Float32" >>,
        [k \in {KEY_TRANSFORM_ROW_2} |-> InstanceEntry(0, 0)],
        NoProperties)

CatalogLayouts ==
    {TransformLayout, TintLayout, OverlapLayout, OutOfRangeLayout, NarrowRowLayout}

\* Generated layouts: every choice of at most MaxSemanticEntries semantic
\* entries and at most one property over a two-element per-instance input.
GeneratedStrides == {16, 32}
GeneratedElements == << "Float32x4", "Float32" >>
GeneratedOffsets(stride) == {o \in {0, 16, 32} : o <= stride}
GeneratedEntries(stride) ==
    {InstanceEntry(i, o) : i \in {0, 1}, o \in GeneratedOffsets(stride)}
        \cup {VertexEntry(0, 0)}
GeneratedKeys == {KEY_TRANSFORM_ROW_0, KEY_TRANSFORM_ROW_2, KEY_CUSTOM}
GeneratedSemanticInputs(stride) ==
    UNION {[ks -> GeneratedEntries(stride)] :
              ks \in {s \in SUBSET GeneratedKeys : Cardinality(s) <= MaxSemanticEntries}}
GeneratedProperties(stride) ==
    {NoProperties} \cup
    {[p \in {"tint"} |-> [offset |-> o, value |-> v]] :
        o \in GeneratedOffsets(stride),
        v \in {None, Some(<< 1 >>), Some(<< 1, 2, 0, 1 >>)}}
GeneratedLayouts ==
    UNION {{MakeMaterial(stride, GeneratedElements, si, pr) :
               si \in GeneratedSemanticInputs(stride), pr \in GeneratedProperties(stride)} :
           stride \in GeneratedStrides}

\* Size of the attribute a semantic entry points at
\* (per_instance_input.elements[index].attribute.format.size()).
ElementSize(material, entry) == FormatSize(material.elements[entry.index + 1])

\* value.to_vertex_format().size() of a property value.
ValueSize(value) == FormatSize(ValueFormat(value))

\* The byte regions build_rendering_command addresses for a material: one per
\* instance-step semantic entry, one per property that has a value.
SemanticRegion(material, key) ==
    [offset |-> material.semantic_inputs[key].offset,
     size |-> ElementSize(material, material.semantic_inputs[key])]
PropertyRegion(material, p) ==
    [offset |-> material.per_instance_properties[p].offset,
     size |-> ValueSize(Unwrap(material.per_instance_properties[p].value))]
InstanceKeys(material) ==
    {k \in DOMAIN material.semantic_inputs :
        material.semantic_inputs[k].step_mode = "Instance"}
ValuedProperties(material) ==
    {p \in DOMAIN material.per_instance_properties :
        IsSome(material.per_instance_properties[p].value)}
Regions(material) ==
    [tag \in ({<< "semantic", k >> : k \in InstanceKeys(material)}
              \cup {<< "property", p >> : p \in ValuedProperties(material)}) |->
        IF tag[1] = "semantic" THEN SemanticRegion(material, tag[2])
        ELSE PropertyRegion(material, tag[2])]
RegionsOverlap(a, b) == a.offset < b.offset + b.size /\ b.offset < a.offset + a.size

\* The Material invariant of the data model: every region inside the stride,
\* no two regions overlapping.
RegionsFit(material) ==
    \A t \in DOMAIN Regions(material) :
        Regions(material)[t].offset + Regions(material)[t].size <= material.stride
RegionsDisjoint(material) ==
    \A t, u \in DOMAIN Regions(material) :
        t # u => ~RegionsOverlap(Regions(material)[t], Regions(material)[u])
ValidLayout(material) == RegionsFit(material) /\ RegionsDisjoint(material)

(* ----------------------------------------------------------------- state *)

MaterialIds == {"m1", "m2"}
PipelineKeys == {1}
DeviceBufferIds == 1..NumDeviceBuffers

VARIABLES
    provider,        \* the renderer's pipeline provider: [key, material], both Option
    pipeline_cache,  \* keys with a compiled pipeline
    materials,       \* MaterialIds -> Material, the shared materials' contents
    readers,         \* MaterialIds -> read guards held ("local", "command")
    writer,          \* the writing thread: [state, material]
    matrix,          \* object_hierarchy.matrix(object_id)
    renderer,        \* [vertex_count, vertex_buffers] of the renderer
    pc,              \* position of the thread in build_rendering_command / render
    local,           \* locals of build_rendering_command: [pipeline, material, snapshot]
    staging,         \* Option of the staging buffer: [size, capacity, data]
    todo,            \* entries the running loop has not visited yet
    log,             \* allocator, write and draw events of the current command
    device,          \* Option of the committed device allocation: [buffer, size, data]
    command,         \* Option of the returned RenderingCommand
    pass             \* commands recorded by the render pass

\* The collaborators around the assembly, each with a specification of its own.
VARIABLES
    pipelines,       \* the PipelineCache: [entries, compiles, obtained]
    pool,            \* the GenericBufferPool: [buffers, idle, held, last]
    engine,          \* Engine::run: [loop_mode, window_occluded, steps, ...]
    loader           \* RawFileAssetLoader::load_asset: [database, stack, ...]

others == << pipelines, pool, engine, loader >>

\* The state of build_rendering_command and render.
assembly == << provider, pipeline_cache, materials, readers, writer, matrix, renderer,
               pc, local, staging, todo, log, device, command, pass >>

vars == << assembly, others >>

Event(op, key, offset, size, buffer) ==
    [op |-> op, key |-> key, offset |-> offset, size |-> size, buffer |-> buffer]

NoLocal == [pipeline |-> None, material |-> None, second |-> None, snapshot |-> None]

(* ------------------------------------------------ collaborators' contracts *)

\* PipelineProvider::obtain_pipeline: none while the provider has no resolvable
\* key, else the pipeline cached or compiled under that key.
ObtainPipeline(p) == p.key

\* PipelineCache after obtain_pipeline: a miss inserts the compiled pipeline.
CacheAfterObtain(cache, p) == IF IsSome(p.key) THEN cache \cup {Unwrap(p.key)} ELSE cache

\* PipelineProvider::material.
ProviderMaterial(p) == p.material

\* RwLock::read can be taken: no writer holds the lock or waits for it.
CanRead(m) == ~(writer.state \in {"waiting", "held"} /\ writer.material = m)

\* RwLock::write can be taken: no read guard is alive.
CanWrite(m) == readers[m] = {}

\* FrameBufferAllocator::alloc_staging_buffer: a fresh region of at least
\* `size` bytes.
StagingSlack == 16
StagingCapacities(size) == {size, size + StagingSlack}
FillBytes == {0, 205}
NewStaging(size, capacity, fill) ==
    [size |-> size, capacity |-> capacity, fill |-> fill,
     data |-> [i \in 1..capacity |-> fill]]

\* HostBuffer::slice is bounds-checked against the buffer.
SliceInBounds(buffer, offset, size) == offset + size <= buffer.capacity

\* copy_from_slice into the slice at `offset`: bytes[i] lands at offset + i.
WriteAt(data, offset, bytes) ==
    [i \in 1..Len(data) |->
        IF i > offset /\ i <= offset + Len(bytes) THEN bytes[i - offset] ELSE data[i]]

\* Renderer::copy_semantic_per_instance_input fills the slice it is given.
RendererBytes(key, size) == [i \in 1..size |-> 170]

\* FrameBufferAllocator::commit_staging_buffer copies the staged bytes into a
\* device buffer of the pool.
CommittedAllocation(buffer, stage) ==
    [buffer |-> buffer, size |-> stage.size, data |-> SubSeq(stage.data, 1, stage.size)]

(* ------------------------------------------------ build_rendering_command *)

env == << provider, materials, writer, matrix, renderer >>

\* The material the first resolution read-locked.
LocalMaterial == materials[Unwrap(local.material)]

\* A panic unwinds the call: the local read guard and the staging buffer drop.
Unwind ==
    /\ pc' = "panicked"
    /\ readers' = [readers EXCEPT ![Unwrap(local.material)] = @ \ {"local"}]
    /\ staging' = None
    /\ todo' = {}
    /\ UNCHANGED << others, env, pipeline_cache, local, log, device, command, pass >>

\* Mutant: the staging buffer is allocated before the pipeline is resolved.
BuildNoPipeline_AllocatesFirst ==
    /\ pc = "idle"
    /\ ~IsSome(ObtainPipeline(provider))
    /\ pc' = "returned"
    /\ command' = None
    /\ log' = Append(log, Event("alloc", "", 0, 0, 0))
    /\ pipeline_cache' = CacheAfterObtain(pipeline_cache, provider)
    /\ UNCHANGED << others, env, readers, local, staging, todo, device, pass >>

\* obtain_pipeline gives none: return None.
BuildNoPipeline ==
    /\ pc = "idle"
    /\ ~IsSome(ObtainPipeline(provider))
    /\ pc' = "returned"
    /\ command' = None
    /\ pipeline_cache' = CacheAfterObtain(pipeline_cache, provider)
    /\ UNCHANGED << others, env, readers, local, staging, todo, log, device, pass >>

\* Mutant: the missing material is unwrapped instead of returned as None.
BuildNoMaterial_Unwraps ==
    /\ pc = "idle"
    /\ IsSome(ObtainPipeline(provider))
    /\ ~IsSome(ProviderMaterial(provider))
    /\ pc' = "panicked"
    /\ pipeline_cache' = CacheAfterObtain(pipeline_cache, provider)
    /\ UNCHANGED << others, env, readers, local, staging, todo, log, device, command, pass >>

\* The provider has a pipeline and no material: return None.
BuildNoMaterial ==
    /\ pc = "idle"
    /\ IsSome(ObtainPipeline(provider))
    /\ ~IsSome(ProviderMaterial(provider))
    /\ pc' = "returned"
    /\ command' = None
    /\ pipeline_cache' = CacheAfterObtain(pipeline_cache, provider)
    /\ UNCHANGED << others, env, readers, local, staging, todo, log, device, pass >>

\* Pipeline and material resolved; the material handle is cloned.
BuildResolved ==
    /\ pc = "idle"
    /\ IsSome(ObtainPipeline(provider))
    /\ IsSome(ProviderMaterial(provider))
    /\ pipeline_cache' = CacheAfterObtain(pipeline_cache, provider)
    /\ local' = [NoLocal EXCEPT !.pipeline = ObtainPipeline(provider),
                                !.material = ProviderMaterial(provider)]
    /\ pc' = "read_first"
    /\ UNCHANGED << others, env, readers, staging, todo, log, device, command, pass >>

\* material.read(): the guard the rest of the assembly reads through.
ReadFirst ==
    /\ pc = "read_first"
    /\ CanRead(Unwrap(local.material))
    /\ readers' = [readers EXCEPT ![Unwrap(local.material)] = @ \cup {"local"}]
    /\ local' = [local EXCEPT !.snapshot = Some(LocalMaterial)]
    /\ pc' = "alloc"
    /\ UNCHANGED << others, env, pipeline_cache, staging, todo, log, device, command, pass >>

\* Size handed to alloc_staging_buffer.
StagingSize(material) == material.stride

AllocStaging ==
    /\ pc = "alloc"
    /\ \E capacity \in StagingCapacities(StagingSize(LocalMaterial)), fill \in FillBytes :
          /\ staging' = Some(NewStaging(StagingSize(LocalMaterial), capacity, fill))
          /\ log' = Append(log, Event("alloc", "", 0, capacity, 0))
    /\ todo' = DOMAIN LocalMaterial.semantic_inputs
    /\ pc' = "semantic"
    /\ UNCHANGED << others, env, pipeline_cache, readers, local, device, command, pass >>

\* Mutant: rows 1 and 2 exchanged.
TransformRowIndex_Swapped(key) ==
    CASE key = KEY_TRANSFORM_ROW_0 -> 0
      [] key = KEY_TRANSFORM_ROW_1 -> 2
      [] key = KEY_TRANSFORM_ROW_2 -> 1
      [] key = KEY_TRANSFORM_ROW_3 -> 3

\* The matrix row the core writes for a transform-row key.
TransformRowIndex(key) ==
    CASE key = KEY_TRANSFORM_ROW_0 -> 0
      [] key = KEY_TRANSFORM_ROW_1 -> 1
      [] key = KEY_TRANSFORM_ROW_2 -> 2
      [] key = KEY_TRANSFORM_ROW_3 -> 3

\* Mutant: the slice starts where the entry's region ends.
SemanticSlice_Shifted(material, key) ==
    [offset |-> SemanticRegion(material, key).offset + SemanticRegion(material, key).size,
     size |-> SemanticRegion(material, key).size]

\* The slice taken for a semantic entry: (input_data.offset, size of its element).
SemanticSlice(material, key) == SemanticRegion(material, key)

\* Mutant: the slice of a property is always a whole Float32x4 attribute.
PropertySlice_WholeAttribute(material, p) ==
    [offset |-> material.per_instance_properties[p].offset, size |-> 16]

\* The slice taken for a property that has a value.
PropertySlice(material, p) == PropertyRegion(material, p)

\* The staging buffer and the log after `bytes` are copied into the slice.
Written(key, slice, bytes, by) ==
    /\ staging' = Some([Unwrap(staging) EXCEPT !.data = WriteAt(@, slice.offset, bytes)])
    /\ log' = log \o << Event("slice", key, slice.offset, slice.size, 0),
                        Event(by, key, slice.offset, Len(bytes), 0) >>

\* An entry whose step mode is not Instance is skipped.
SemanticSkip ==
    /\ pc = "semantic"
    /\ \E key \in todo :
          /\ LocalMaterial.semantic_inputs[key].step_mode # "Instance"
          /\ todo' = todo \ {key}
    /\ UNCHANGED << others, env, pipeline_cache, readers, pc, local, staging, log, device,
                    command, pass >>

\* The slice of an instance entry lies outside the staging buffer.
SemanticSliceFault ==
    /\ pc = "semantic"
    /\ \E key \in todo :
          /\ LocalMaterial.semantic_inputs[key].step_mode = "Instance"
          /\ ~SliceInBounds(Unwrap(staging), SemanticSlice(LocalMaterial, key).offset,
                            SemanticSlice(LocalMaterial, key).size)
    /\ Unwind

\* copy_from_slice of a 16-byte row into a slice of another length.
SemanticCopyFault ==
    /\ pc = "semantic"
    /\ \E key \in todo \cap TransformKeys :
          /\ LocalMaterial.semantic_inputs[key].step_mode = "Instance"
          /\ SliceInBounds(Unwrap(staging), SemanticSlice(LocalMaterial, key).offset,
                           SemanticSlice(LocalMaterial, key).size)
          /\ SemanticSlice(LocalMaterial, key).size
                # Len(AsBytes(MatrixRow(matrix, TransformRowIndex(key))))
    /\ Unwind

\* A transform-row key: the core copies the row into the slice.
SemanticTransformRow ==
    /\ pc = "semantic"
    /\ \E key \in todo \cap TransformKeys :
          LET slice == SemanticSlice(LocalMaterial, key)
              bytes == AsBytes(MatrixRow(matrix, TransformRowIndex(key)))
          IN /\ LocalMaterial.semantic_inputs[key].step_mode = "Instance"
             /\ SliceInBounds(Unwrap(staging), slice.offset, slice.size)
             /\ slice.size = Len(bytes)
             /\ Written(key, slice, bytes, "write")
             /\ todo' = todo \ {key}
    /\ UNCHANGED << others, env, pipeline_cache, readers, pc, local, device, command, pass >>

\* Any other key: the renderer fills the slice.
SemanticDelegate ==
    /\ pc = "semantic"
    /\ \E key \in todo \ TransformKeys :
          LET slice == SemanticSlice(LocalMaterial, key)
          IN /\ LocalMaterial.semantic_inputs[key].step_mode = "Instance"
             /\ SliceInBounds(Unwrap(staging), slice.offset, slice.size)
             /\ Written(key, slice, RendererBytes(key, slice.size), "callback")
             /\ todo' = todo \ {key}
    /\ UNCHANGED << others, env, pipeline_cache, readers, pc, local, device, command, pass >>

\* Mutant: the staging buffer is committed before the property loop.
SemanticDone_CommitsFirst ==
    /\ pc = "semantic"
    /\ todo = {}
    /\ todo' = DOMAIN LocalMaterial.per_instance_properties
    /\ device' = Some(CommittedAllocation(1, Unwrap(staging)))
    /\ log' = Append(log, Event("commit", "", 0, Unwrap(staging).size, 1))
    /\ pc' = "property"
    /\ UNCHANGED << others, env, pipeline_cache, readers, local, staging, command, pass >>

\* The semantic loop is over; the property loop starts.
SemanticDone ==
    /\ pc = "semantic"
    /\ todo = {}
    /\ todo' = DOMAIN LocalMaterial.per_instance_properties
    /\ pc' = "property"
    /\ UNCHANGED << others, env, pipeline_cache, readers, local, staging, log, device,
                    command, pass >>

\* A property without a value is skipped.
PropertySkip ==
    /\ pc = "property"
    /\ \E p \in todo :
          /\ ~IsSome(LocalMaterial.per_instance_properties[p].value)
          /\ todo' = todo \ {p}
    /\ UNCHANGED << others, env, pipeline_cache, readers, pc, local, staging, log, device,
                    command, pass >>

\* The slice of a valued property lies outside the staging buffer.
PropertySliceFault ==
    /\ pc = "property"
    /\ \E p \in todo :
          /\ IsSome(LocalMaterial.per_instance_properties[p].value)
          /\ ~SliceInBounds(Unwrap(staging), PropertySlice(LocalMaterial, p).offset,
                            PropertySlice(LocalMaterial, p).size)
    /\ Unwind

\* A valued property: its bytes are copied into its slice.
PropertyWrite ==
    /\ pc = "property"
    /\ \E p \in todo :
          LET slice == PropertySlice(LocalMaterial, p)
              bytes == AsBytes(Unwrap(LocalMaterial.per_instance_properties[p].value))
          IN /\ IsSome(LocalMaterial.per_instance_properties[p].value)
             /\ SliceInBounds(Unwrap(staging), slice.offset, slice.size)
             /\ Written(p, slice, bytes, "property")
             /\ todo' = todo \ {p}
    /\ UNCHANGED << others, env, pipeline_cache, readers, pc, local, device, command, pass >>

\* commit_staging_buffer consumes the staging buffer.
CommitStaging ==
    /\ pc = "property"
    /\ todo = {}
    /\ \E b \in DeviceBufferIds :
          /\ device' = Some(CommittedAllocation(b, Unwrap(staging)))
          /\ log' = Append(log, Event("commit", "", 0, Unwrap(staging).size, b))
    /\ staging' = None
    /\ pc' = "assemble"
    /\ UNCHANGED << others, env, pipeline_cache, readers, local, todo, command, pass >>

\* The struct expression up to the second resolution of the material:
\* material().unwrap() panics when the provider has none.
AssembleResolve ==
    /\ pc = "assemble"
    /\ IF IsSome(ProviderMaterial(provider))
       THEN /\ local' = [local EXCEPT !.second = ProviderMaterial(provider)]
            /\ pc' = "read_second"
            /\ UNCHANGED << others, env, pipeline_cache, readers, staging, todo, log, device,
                            command, pass >>
       ELSE Unwind

\* The command build_rendering_command returns.
BuiltCommand ==
    [pipeline |-> Unwrap(local.pipeline),
     material |-> Unwrap(local.second),
     vertex_count |-> renderer.vertex_count,
     per_vertex_buffers |-> renderer.vertex_buffers,
     per_instance_buffer |-> device]

\* Mutant: the command keeps no guard of its own.
GuardsAfterReturn_NoCommandGuard(first, second) ==
    [m \in MaterialIds |-> readers[m] \ (IF m = first THEN {"local"} ELSE {})]

\* Read guards after the command took its guard on `second` and the function
\* returned, dropping the local guard on `first`.
GuardsAfterReturn(first, second) ==
    [m \in MaterialIds |->
        (IF m = second THEN readers[m] \cup {"command"} ELSE readers[m])
            \ (IF m = first THEN {"local"} ELSE {})]

\* .read() for the command, then return Some(command).
ReadSecond ==
    /\ pc = "read_second"
    /\ CanRead(Unwrap(local.second))
    /\ command' = Some(BuiltCommand)
    /\ readers' = GuardsAfterReturn(Unwrap(local.material), Unwrap(local.second))
    /\ pc' = "returned"
    /\ UNCHANGED << others, env, pipeline_cache, local, staging, todo, log, device, pass >>

(* -------------------------------------------------- RenderingCommand::render *)

PassCommand(cmd, index, resource, first, last) ==
    [cmd |-> cmd, index |-> index, resource |-> resource, first |-> first, last |-> last]

\* Orders in which bind_properties.values() can be visited.
BindOrders(material) ==
    LET names == DOMAIN material.bind_properties
        n == Cardinality(names)
    IN {order \in [1..n -> names] : \A i, j \in 1..n : i # j => order[i] # order[j]}

\* The holder a bind property points at.
HolderOf(material, name) ==
    material.bind_group_holders[material.bind_properties[name].group_index + 1]

\* bind_group_holders[group_index] is inside the vector for every property.
HoldersInRange(material) ==
    \A name \in DOMAIN material.bind_properties :
        material.bind_properties[name].group_index < Len(material.bind_group_holders)

\* set_bind_group calls of one visit order: one per property whose holder has
\* a bind group.
RECURSIVE BindGroupCommands(_, _, _)
BindGroupCommands(material, order, i) ==
    IF i > Len(order) THEN << >>
    ELSE (IF IsSome(HolderOf(material, order[i]).bind_group)
          THEN << PassCommand("set_bind_group", HolderOf(material, order[i]).group,
                              Unwrap(HolderOf(material, order[i]).bind_group), 0, 0) >>
          ELSE << >>)
         \o BindGroupCommands(material, order, i + 1)

\* set_vertex_buffer(index, buffer) for the per-vertex buffers, in order.
VertexBufferCommands(buffers) ==
    [k \in 1..Len(buffers) |-> PassCommand("set_vertex_buffer", k - 1, buffers[k], 0, 0)]

\* Mutant: the per-instance buffer takes the slot of the last per-vertex buffer.
InstanceSlot_LastVertexSlot(cmd) ==
    IF Len(cmd.per_vertex_buffers) = 0 THEN 0 ELSE Len(cmd.per_vertex_buffers) - 1

\* Slot of the per-instance buffer.
InstanceSlot(cmd) == Len(cmd.per_vertex_buffers)

\* set_vertex_buffer for the per-instance buffer, when there is one.
InstanceBufferCommands(cmd) ==
    IF IsSome(cmd.per_instance_buffer)
    THEN << PassCommand("set_vertex_buffer", InstanceSlot(cmd),
                        Unwrap(cmd.per_instance_buffer).buffer, 0, 0) >>
    ELSE << >>

\* draw(0..vertex_count, 0..1): `first`/`last` the vertex range, `index`/`resource`
\* the instance range.
DrawCommand(cmd) == PassCommand("draw", 0, 1, 0, cmd.vertex_count)

\* Mutant: the vertex buffers are bound before the bind groups.
RenderCommands_BuffersFirst(cmd, material, order) ==
    << PassCommand("set_pipeline", 0, cmd.pipeline, 0, 0) >>
        \o VertexBufferCommands(cmd.per_vertex_buffers)
        \o InstanceBufferCommands(cmd)
        \o BindGroupCommands(material, order, 1)
        \o << DrawCommand(cmd) >>

\* Everything render records, for one visit order of the bind properties.
RenderCommands(cmd, material, order) ==
    << PassCommand("set_pipeline", 0, cmd.pipeline, 0, 0) >>
        \o BindGroupCommands(material, order, 1)
        \o VertexBufferCommands(cmd.per_vertex_buffers)
        \o InstanceBufferCommands(cmd)
        \o << DrawCommand(cmd) >>

InstanceBufferId(cmd) ==
    IF IsSome(cmd.per_instance_buffer) THEN Unwrap(cmd.per_instance_buffer).buffer ELSE 0

Render ==
    /\ pc = "returned"
    /\ IsSome(command)
    /\ HoldersInRange(materials[Unwrap(command).material])
    /\ \E order \in BindOrders(materials[Unwrap(command).material]) :
          pass' = RenderCommands(Unwrap(command), materials[Unwrap(command).material], order)
    /\ log' = Append(log, Event("draw", "", 0, 0, InstanceBufferId(Unwrap(command))))
    /\ pc' = "rendered"
    /\ UNCHANGED << others, env, pipeline_cache, readers, local, staging, todo, device, command >>

\* Indexing bind_group_holders out of range panics inside render.
RenderIndexFault ==
    /\ pc = "returned"
    /\ IsSome(command)
    /\ ~HoldersInRange(materials[Unwrap(command).material])
    /\ pc' = "render_panicked"
    /\ UNCHANGED << others, env, pipeline_cache, readers, local, staging, todo, log, device,
                    command, pass >>

\* The command is dropped: its read guard is released, the frame's data goes.
DropCommand ==
    /\ pc \in {"returned", "rendered"}
    /\ IsSome(command)
    /\ readers' = [readers EXCEPT ![Unwrap(command).material] = @ \ {"command"}]
    /\ command' = None
    /\ local' = NoLocal
    /\ log' = << >>
    /\ pass' = << >>
    /\ device' = None
    /\ pc' = "idle"
    /\ UNCHANGED << others, env, pipeline_cache, staging, todo >>

\* The caller skips the renderable after a None.
SkipRenderable ==
    /\ pc = "returned"
    /\ ~IsSome(command)
    /\ pc' = "idle"
    /\ UNCHANGED << others, env, pipeline_cache, readers, local, staging, todo, log, device,
                    command, pass >>

(* ----------------------------------------------------------- environment *)

ProviderStates ==
    [key : {None} \cup {Some(k) : k \in PipelineKeys},
     material : {None} \cup {Some(m) : m \in MaterialIds}]

\* Mutant: the renderer is shared, game logic reaches it during a call.
RendererBorrowed_Never == FALSE

\* The renderer is mutably borrowed by build_rendering_command and then by the
\* command it returned ('r).
RendererBorrowed == pc # "idle"

\* Game logic changes the provider (a shader or a material finishes loading, a
\* material is replaced) while nothing borrows the renderer.
ConfigureProvider ==
    /\ ~RendererBorrowed
    /\ \E p \in ProviderStates : p # provider /\ provider' = p
    /\ UNCHANGED << others, pipeline_cache, materials, readers, writer, matrix, renderer,
                    pc, local, staging, todo, log, device, command, pass >>

\* Another thread asks for a material's exclusive lock.
WriterRequest ==
    /\ writer.state = "idle"
    /\ \E m \in MaterialIds : writer' = [state |-> "waiting", material |-> m]
    /\ UNCHANGED << others, provider, pipeline_cache, materials, readers, matrix, renderer,
                    pc, local, staging, todo, log, device, command, pass >>

WriterAcquire ==
    /\ writer.state = "waiting"
    /\ CanWrite(writer.material)
    /\ writer' = [writer EXCEPT !.state = "held"]
    /\ UNCHANGED << others, provider, pipeline_cache, materials, readers, matrix, renderer,
                    pc, local, staging, todo, log, device, command, pass >>

\* Values the writer stores into a property.
WriterValues == {None, Some(<< 1, 2, 0, 1 >>)}

\* Under the exclusive lock a per-instance property gets another value.
WriterUpdate ==
    /\ writer.state = "held"
    /\ \E p \in DOMAIN materials[writer.material].per_instance_properties,
          v \in WriterValues :
          /\ materials[writer.material].per_instance_properties[p].value # v
          /\ materials' = [materials EXCEPT
                              ![writer.material].per_instance_properties[p].value = v]
    /\ UNCHANGED << others, provider, pipeline_cache, readers, writer, matrix, renderer,
                    pc, local, staging, todo, log, device, command, pass >>

WriterRelease ==
    /\ writer.state = "held"
    /\ writer' = [writer EXCEPT !.state = "idle"]
    /\ UNCHANGED << others, provider, pipeline_cache, materials, readers, matrix, renderer,
                    pc, local, staging, todo, log, device, command, pass >>

(* ------------------------------------------------------------ PipelineCache *)

\* A pipeline key: (shader identity, vertex-layout identity, render-state identity).
Shaders == {"lit", "unlit"}
VertexLayouts == {"pos_uv"}
RenderStates == {"opaque", "depth_test"}
CacheKeys == Shaders \X VertexLayouts \X RenderStates

\* Renderables that share the cache; each has a provider whose key is none
\* while its shader or material is still loading.
Renderables == {"r1", "r2"}
RenderableKeys == {None} \cup {Some(k) : k \in CacheKeys}

\* `entries` maps a key to its compiled pipeline, `compiles` lists the keys in
\* the order the shader manager compiled them (the n-th compile makes pipeline
\* n), `obtained` is the last result obtain_pipeline gave each renderable.
PipelinesAtRest(keys) ==
    [keys |-> keys,
     entries |-> [k \in CacheKeys |-> None],
     compiles |-> << >>,
     obtained |-> [r \in Renderables |-> None]]

\* Mutant: the lookup never hits.
IsCacheHit_Never(entries, key) == FALSE

\* Step 2 of obtain_pipeline: the key has a cached pipeline.
IsCacheHit(entries, key) == IsSome(entries[key])

\* A result of obtain_pipeline: the pipeline and the key it was asked under.
Obtained(key, pipeline) == Some([key |-> key, pipeline |-> pipeline])

\* Step 4: the provider has no key yet; nothing is compiled or inserted.
ObtainNotReady(r) ==
    /\ ~IsSome(pipelines.keys[r])
    /\ pipelines' = [pipelines EXCEPT !.obtained[r] = None]

\* Step 2: a hit returns the cached pipeline unchanged.
ObtainHit(r) ==
    /\ IsSome(pipelines.keys[r])
    /\ LET key == Unwrap(pipelines.keys[r]) IN
          /\ IsCacheHit(pipelines.entries, key)
          /\ pipelines' = [pipelines EXCEPT
                              !.obtained[r] = Obtained(key, Unwrap(pipelines.entries[key]))]

\* Step 3: a miss compiles a pipeline, inserts it under the key and returns it.
ObtainMiss(r) ==
    /\ IsSome(pipelines.keys[r])
    /\ LET key == Unwrap(pipelines.keys[r])
           compiled == Len(pipelines.compiles) + 1
       IN /\ ~IsCacheHit(pipelines.entries, key)
          /\ Len(pipelines.compiles) < Cardinality(CacheKeys) + 1
          /\ pipelines' = [pipelines EXCEPT
                              !.entries[key] = Some(compiled),
                              !.compiles = Append(@, key),
                              !.obtained[r] = Obtained(key, compiled)]

\* A renderable's shader or render state changes between frames: its provider
\* computes another key (or none while the new shader loads).
ProviderKeyChange(r) ==
    \E k \in RenderableKeys :
        /\ k # pipelines.keys[r]
        /\ pipelines' = [pipelines EXCEPT !.keys[r] = k]

CacheObtainNotReady == \E r \in Renderables : ObtainNotReady(r) /\ UNCHANGED << loader, assembly, pool, engine >>
CacheObtainHit == \E r \in Renderables : ObtainHit(r) /\ UNCHANGED << loader, assembly, pool, engine >>
CacheObtainMiss == \E r \in Renderables : ObtainMiss(r) /\ UNCHANGED << loader, assembly, pool, engine >>
CacheKeyChange == \E r \in Renderables : ProviderKeyChange(r) /\ UNCHANGED << loader, assembly, pool, engine >>

(* -------------------------------------------------------- GenericBufferPool *)

\* Device buffers the pool may allocate before the device is out of memory.
MaxPoolBuffers == 2

BufferUsages == {"vertex", "uniform"}
RequestSizes == {16, 48, 64}
PoolHolders == {"frame_allocator", "uploader"}

\* The size class of a request: the next power of two.
SizeClass(size) == IF size <= 16 THEN 16 ELSE IF size <= 32 THEN 32 ELSE 64

\* A bucket key: (size class, usage flags).
BucketKey(usage, size) == << SizeClass(size), usage >>

\* `buffers` lists the device buffers ever allocated (a buffer's identity is
\* its index), `idle` is the union of the buckets' idle sets, `held` is the
\* set of live checkouts, `last` is the last operation: a release with the
\* request its buffer was checked out for, or a checkout with its request,
\* whether it allocated, and the release it directly followed.
PoolAtRest == [buffers |-> << >>, idle |-> {}, held |-> {}, last |-> None]

BucketOf(buffer) == << buffer.size, buffer.usage >>

\* Mutant: only a buffer of exactly the requested size is reused.
IdleFits_ExactSize(p, usage, size) ==
    {b \in p.idle : p.buffers[b].usage = usage /\ p.buffers[b].size = size}

\* The idle buffers of the request's bucket that are large enough.
IdleFits(p, usage, size) ==
    {b \in p.idle : BucketOf(p.buffers[b]) = BucketKey(usage, size)
                    /\ p.buffers[b].size >= size}

\* Mutant: a buffer handed out stays in its bucket's idle set.
IdleAfterCheckout_Keeps(idle, b) == idle

\* The idle sets after buffer b left its bucket.
IdleAfterCheckout(idle, b) == idle \ {b}

\* A live checkout: the holder, the buffer and the request that got it.
Checkout(holder, buffer, usage, size) ==
    [holder |-> holder, buffer |-> buffer, usage |-> usage, size |-> size]

PoolOp(op, buffer, usage, size, allocated, released) ==
    [op |-> op, buffer |-> buffer, usage |-> usage, size |-> size,
     allocated |-> allocated, released |-> released]

\* The release the next operation directly follows, if any.
JustReleased(p) ==
    IF IsSome(p.last) /\ Unwrap(p.last).op = "release"
    THEN Some([buffer |-> Unwrap(p.last).buffer, usage |-> Unwrap(p.last).usage,
               size |-> Unwrap(p.last).size])
    ELSE None

\* checkout(usage, size): an idle buffer of the matching bucket.
CheckoutIdle(holder, usage, size) ==
    /\ Cardinality(pool.held) <= MaxPoolBuffers
    /\ \E b \in IdleFits(pool, usage, size) :
          pool' = [pool EXCEPT
                      !.idle = IdleAfterCheckout(@, b),
                      !.held = @ \cup {Checkout(holder, b, usage, size)},
                      !.last = Some(PoolOp("checkout", b, usage, size, FALSE,
                                           JustReleased(pool)))]

\* checkout(usage, size) with no fitting idle buffer: a new device buffer of
\* the bucket's canonical size and usage.
CheckoutAllocate(holder, usage, size) ==
    /\ IdleFits(pool, usage, size) = {}
    /\ Len(pool.buffers) < MaxPoolBuffers
    /\ LET b == Len(pool.buffers) + 1 IN
          pool' = [pool EXCEPT
                      !.buffers = Append(@, [usage |-> usage, size |-> SizeClass(size)]),
                      !.held = @ \cup {Checkout(holder, b, usage, size)},
                      !.last = Some(PoolOp("checkout", b, usage, size, TRUE,
                                           JustReleased(pool)))]

\* release(buffer): the holder's buffer returns to its bucket's idle set.
Release(h) ==
    pool' = [pool EXCEPT
                !.idle = @ \cup {h.buffer},
                !.held = @ \ {h},
                !.last = Some(PoolOp("release", h.buffer, h.usage, h.size, FALSE, None))]

PoolCheckoutIdle ==
    /\ \E holder \in PoolHolders, usage \in BufferUsages, size \in RequestSizes :
          CheckoutIdle(holder, usage, size)
    /\ UNCHANGED << loader, assembly, pipelines, engine >>

PoolCheckoutAllocate ==
    /\ \E holder \in PoolHolders, usage \in BufferUsages, size \in RequestSizes :
          CheckoutAllocate(holder, usage, size)
    /\ UNCHANGED << loader, assembly, pipelines, engine >>

PoolRelease ==
    /\ \E h \in pool.held : Release(h)
    /\ UNCHANGED << loader, assembly, pipelines, engine >>

(* ------------------------------------------------------------- Engine::run *)

\* Frames after which the frame counter of the time manager stops counting.
MaxFrames == 2

\* Ticks after which the clock of the model stops.
MaxTime == 4

LoopModes == {"Poll", "Wait"}
WindowIds == {"engine_window", "other_window"}
WindowSizes == {[width |-> w, height |-> h] : w \in {0, 800}, h \in {0, 600}}

\* The two event loops of the repository: Engine::run of enter-core
\* (src/lib.rs) and Engine::run of enter-core-lib (engine/mod.rs), which polls
\* and does not render yet.
EngineCrates == {"enter-core", "enter-core-lib"}

\* target_frame_interval.interval(), in ticks: none for VSync and Unlimited.
FrameIntervals == {0, 2}

InitialSize == [width |-> 800, height |-> 600]

\* *control_flow = match loop_mode { .. } at the head of every invocation.
ControlFlowOf(loop_mode) == loop_mode

\* The state the closure of Engine::run captures, before the first event:
\* window_occluded starts false, last_frame_time is the start time, nothing has
\* run. `steps` lists what the handler ran for the last event, `event` and
\* `window` are that event and its window id, `occluded_event` and
\* `size_event` are the values of the last Occluded event and of the last
\* Resized or ScaleFactorChanged event of the engine's window.
EngineStart(crate, loop_mode, interval) ==
    [crate |-> crate,
     loop_mode |-> loop_mode,
     control_flow |-> ControlFlowOf(loop_mode),
     window_occluded |-> FALSE,
     frames |-> 0,
     screen |-> InitialSize,
     surface |-> InitialSize,
     render_target |-> InitialSize,
     now |-> 0,
     last_frame_time |-> 0,
     interval |-> interval,
     event |-> "none",
     window |-> "none",
     steps |-> << >>,
     occluded_event |-> None,
     size_event |-> None]

EngineAtRest(loop_mode) == EngineStart("enter-core", loop_mode, 0)

\* time_mgr.update(), counted up to MaxFrames.
FramesAfterUpdate(frames) == IF frames < MaxFrames THEN frames + 1 ELSE frames

\* Instant::now() at the next event.
NextInstants == {engine.now, IF engine.now < MaxTime THEN engine.now + 1 ELSE engine.now}

\* Mutant: every window id passes the guard of a window-event arm.
IsOwnWindow_Any(id) == TRUE

\* `if id == window_id` of the window-event arms.
IsOwnWindow(id) == id = "engine_window"

\* Mutant: the frame limiter never holds a frame back.
IntervalPassed_Always(now, last_frame_time, interval) == TRUE

\* The negation of `now - last_frame_time < target_frame_interval.interval()`.
IntervalPassed(now, last_frame_time, interval) == ~(now - last_frame_time < interval)

\* Mutant: RedrawRequested renders in Poll mode too.
RedrawSkipped_Never(loop_mode) == FALSE

\* The early return of the RedrawRequested arm.
RedrawSkipped(loop_mode) == loop_mode = "Poll"

\* The early return of the MainEventsCleared arm in Wait mode.
MainEventsSkipped(loop_mode) == loop_mode = "Wait"

\* What the MainEventsCleared arm runs: nothing in Wait mode or before the
\* frame interval has passed; else the time manager, the object matrices and,
\* unless the window is occluded, the camera buffer and the render system.
MainEventsClearedSteps(loop_mode, interval_passed, occluded) ==
    IF MainEventsSkipped(loop_mode) \/ ~interval_passed THEN << >>
    ELSE << "time_mgr.update", "update_object_matrices" >>
         \o (IF occluded THEN << >>
             ELSE << "update_camera_transform_buffer_system", "render_system" >>)

\* The MainEventsCleared arm of enter-core-lib only sleeps while occluded.
LibMainEventsClearedSteps(occluded) == IF occluded THEN << "sleep" >> ELSE << >>

\* What the RedrawRequested arm runs for the engine's window.
RedrawRequestedSteps(loop_mode) ==
    IF RedrawSkipped(loop_mode) THEN << >>
    ELSE << "time_mgr.update", "update_camera_transform_buffer_system", "render_system" >>

\* The handler has not asked the loop to exit.
Running == engine.control_flow # "Exit"

Handled(event, window, now, steps) ==
    [engine EXCEPT !.event = event, !.window = window, !.now = now, !.steps = steps,
                   !.control_flow = ControlFlowOf(engine.loop_mode),
                   !.frames = IF Len(steps) > 0 /\ steps[1] = "time_mgr.update"
                              THEN FramesAfterUpdate(@) ELSE @]

OnMainEventsCleared ==
    /\ Running
    /\ \E now \in NextInstants :
          LET steps == IF engine.crate = "enter-core"
                       THEN MainEventsClearedSteps(
                                engine.loop_mode,
                                IntervalPassed(now, engine.last_frame_time, engine.interval),
                                engine.window_occluded)
                       ELSE LibMainEventsClearedSteps(engine.window_occluded)
          IN engine' = [Handled("MainEventsCleared", "none", now, steps) EXCEPT
                           !.last_frame_time =
                               IF Len(steps) > 0 /\ steps[1] = "time_mgr.update"
                               THEN now ELSE @]
    /\ UNCHANGED << loader, assembly, pipelines, pool >>

\* RedrawRequested of another window, and every RedrawRequested in
\* enter-core-lib, falls to the catch-all arm.
OnRedrawRequested ==
    /\ Running
    /\ \E id \in WindowIds, now \in NextInstants :
          engine' = Handled("RedrawRequested", id, now,
                            IF IsOwnWindow(id) /\ engine.crate = "enter-core"
                            THEN RedrawRequestedSteps(engine.loop_mode) ELSE << >>)
    /\ UNCHANGED << loader, assembly, pipelines, pool >>

OnOccluded ==
    /\ Running
    /\ \E id \in WindowIds, occluded \in BOOLEAN, now \in NextInstants :
          engine' = IF IsOwnWindow(id)
                    THEN [Handled("Occluded", id, now, << >>) EXCEPT
                             !.window_occluded = occluded,
                             !.occluded_event = Some(occluded)]
                    ELSE Handled("Occluded", id, now, << >>)
    /\ UNCHANGED << loader, assembly, pipelines, pool >>

\* Mutant: only a zero width counts.
WindowOccludedAfterResize_WidthOnly(size) == size.width = 0

\* A size with a zero side marks the window occluded and skips the resize.
WindowOccludedAfterResize(size) == size.width = 0 \/ size.height = 0

\* What the Resized and ScaleFactorChanged arms of enter-core run.
ResizeSteps(event, size) ==
    (IF event = "ScaleFactorChanged"
     THEN << "target_frame_interval.update_window", "screen_mgr.update_scale_factor" >>
     ELSE << "screen_mgr.update_size" >>)
    \o (IF WindowOccludedAfterResize(size) THEN << >>
        ELSE << "gfx_ctx.resize", "render_mgr.resize" >>)

\* What the same arms of enter-core-lib run.
LibResizeSteps(event) ==
    IF event = "ScaleFactorChanged" THEN << "screen_mgr.update_scale_factor" >>
    ELSE << "screen_mgr.update_size" >>

\* Resized and ScaleFactorChanged. update_window may find another refresh rate.
OnResized ==
    /\ Running
    /\ \E id \in WindowIds, size \in WindowSizes, now \in NextInstants,
          event \in {"Resized", "ScaleFactorChanged"}, interval \in FrameIntervals :
          /\ (event = "Resized" \/ ~IsOwnWindow(id) \/ engine.crate # "enter-core")
                => interval = engine.interval
          /\ engine' =
                IF ~IsOwnWindow(id) THEN Handled(event, id, now, << >>)
                ELSE IF engine.crate = "enter-core"
                THEN [Handled(event, id, now, ResizeSteps(event, size)) EXCEPT
                         !.screen = size,
                         !.size_event = Some(size),
                         !.interval = interval,
                         !.window_occluded = WindowOccludedAfterResize(size),
                         !.surface = IF WindowOccludedAfterResize(size) THEN @ ELSE size,
                         !.render_target =
                             IF WindowOccludedAfterResize(size) THEN @ ELSE size]
                ELSE [Handled(event, id, now, LibResizeSteps(event)) EXCEPT
                         !.screen = size,
                         !.size_event = Some(size)]
    /\ UNCHANGED << loader, assembly, pipelines, pool >>

\* Keyboard, cursor and mouse events, and every event of another kind.
OnOtherEvent ==
    /\ Running
    /\ \E id \in WindowIds, now \in NextInstants :
          engine' = Handled("Other", id, now, << >>)
    /\ UNCHANGED << loader, assembly, pipelines, pool >>

OnCloseRequested ==
    /\ Running
    /\ \E id \in WindowIds, now \in NextInstants :
          engine' = IF IsOwnWindow(id)
                    THEN [Handled("CloseRequested", id, now, << >>) EXCEPT
                             !.control_flow = "Exit"]
                    ELSE Handled("CloseRequested", id, now, << >>)
    /\ UNCHANGED << loader, assembly, pipelines, pool >>

(* ------------------------------------------- RawFileAssetLoader::load_asset *)

\* Nested load_asset calls after which the thread's stack overflows.
MaxStackDepth == 4

AssetIds == {"a", "b", "c"}
RootAsset == "a"

\* What dependencies() of a processed source can list.
DependencyLists ==
    {<< >>} \cup {<< x >> : x \in AssetIds}
            \cup {p \in {<< x, y >> : x \in AssetIds, y \in AssetIds} : p[1] # p[2]}

\* TextureSource::dependencies is empty and TextureSource::load is always Ok;
\* the other sources may name dependencies and may fail to load.
TextureDependencies == << >>
AssetEntries ==
    [type : {"Texture"}, deps : {TextureDependencies}, fails : {"none", "process"}]
    \cup [type : {"Shader"}, deps : DependencyLists, fails : {"none", "process", "load"}]

\* An asset database: find_asset_by_id gives none for a missing id.
Databases == [AssetIds -> {None} \cup {Some(e) : e \in AssetEntries}]

Result(kind, id) == [kind |-> kind, id |-> id]
Frame(id, phase, pending) == [id |-> id, phase |-> phase, pending |-> pending]

\* `stack` holds the active load_asset calls, `ret` the value the call that
\* just returned gave its caller, `loaded` the assets whose load succeeded, in
\* order.
LoaderWith(database) ==
    [database |-> database, stack |-> << >>, ret |-> None, loaded |-> << >>,
     status |-> "idle"]

LoaderAtRest == LoaderWith([id \in AssetIds |-> None])

TopFrame == loader.stack[Len(loader.stack)]
Callers == SubSeq(loader.stack, 1, Len(loader.stack) - 1)
TopEntry == loader.database[TopFrame.id]

\* The top call returns `result` to its caller, or to the caller of the loader.
Returned(result) ==
    [loader EXCEPT !.stack = Callers,
                   !.ret = Some(result),
                   !.status = IF Len(loader.stack) = 1 THEN "done" ELSE "running"]

\* load_asset(id, database) is called from outside.
LoaderStart ==
    /\ loader.status = "idle"
    /\ loader' = [loader EXCEPT !.stack = << Frame(RootAsset, "find", << >>) >>,
                                !.status = "running"]
    /\ UNCHANGED << assembly, pipelines, pool, engine >>

\* find_asset_by_id(id) gives none: Err(AssetNotFound(id)).
LoaderNotFound ==
    /\ loader.status = "running"
    /\ TopFrame.phase = "find"
    /\ ~IsSome(TopEntry)
    /\ loader' = Returned(Result("AssetNotFound", TopFrame.id))
    /\ UNCHANGED << assembly, pipelines, pool, engine >>

\* process_asset(..)? fails: its error is returned.
LoaderProcessFails ==
    /\ loader.status = "running"
    /\ TopFrame.phase = "find"
    /\ IsSome(TopEntry)
    /\ Unwrap(TopEntry).fails = "process"
    /\ loader' = Returned(Result("ProcessError", TopFrame.id))
    /\ UNCHANGED << assembly, pipelines, pool, engine >>

\* The asset is processed; its source lists its dependencies.
LoaderProcessed ==
    /\ loader.status = "running"
    /\ TopFrame.phase = "find"
    /\ IsSome(TopEntry)
    /\ Unwrap(TopEntry).fails # "process"
    /\ loader' = [loader EXCEPT
                     !.stack[Len(loader.stack)] =
                         Frame(TopFrame.id, "deps", Unwrap(TopEntry).deps)]
    /\ UNCHANGED << assembly, pipelines, pool, engine >>

\* The next dependency is loaded by a recursive call.
LoaderDescend ==
    /\ loader.status = "running"
    /\ TopFrame.phase = "deps"
    /\ TopFrame.pending # << >>
    /\ ~IsSome(loader.ret)
    /\ Len(loader.stack) < MaxStackDepth
    /\ loader' = [loader EXCEPT
                     !.stack = Append(@, Frame(Head(TopFrame.pending), "find", << >>))]
    /\ UNCHANGED << assembly, pipelines, pool, engine >>

\* The recursion goes deeper than the stack allows.
LoaderStackOverflow ==
    /\ loader.status = "running"
    /\ TopFrame.phase = "deps"
    /\ TopFrame.pending # << >>
    /\ ~IsSome(loader.ret)
    /\ Len(loader.stack) >= MaxStackDepth
    /\ loader' = [loader EXCEPT !.status = "overflow"]
    /\ UNCHANGED << assembly, pipelines, pool, engine >>

\* Mutant: the error of a dependency is dropped.
PropagatesError_Never(result) == FALSE

\* The `?` on the recursive call: an Err ends the iteration and is returned.
PropagatesError(result) == result.kind # "Ok"

\* The recursive call gave Ok: the iteration goes on with the next dependency.
LoaderDepLoaded ==
    /\ loader.status = "running"
    /\ TopFrame.phase = "deps"
    /\ IsSome(loader.ret)
    /\ ~PropagatesError(Unwrap(loader.ret))
    /\ loader' = [loader EXCEPT
                     !.stack[Len(loader.stack)].pending = Tail(@),
                     !.ret = None]
    /\ UNCHANGED << assembly, pipelines, pool, engine >>

\* The recursive call gave Err: collect stops and the error is returned.
LoaderDepFailed ==
    /\ loader.status = "running"
    /\ TopFrame.phase = "deps"
    /\ IsSome(loader.ret)
    /\ PropagatesError(Unwrap(loader.ret))
    /\ loader' = Returned(Unwrap(loader.ret))
    /\ UNCHANGED << assembly, pipelines, pool, engine >>

\* Every dependency is loaded and source.load(id, &deps)? fails.
LoaderLoadFails ==
    /\ loader.status = "running"
    /\ TopFrame.phase = "deps"
    /\ TopFrame.pending = << >>
    /\ ~IsSome(loader.ret)
    /\ Unwrap(TopEntry).fails = "load"
    /\ loader' = Returned(Result("LoadError", TopFrame.id))
    /\ UNCHANGED << assembly, pipelines, pool, engine >>

\* Every dependency is loaded and source.load(id, &deps) gives the asset.
LoaderLoaded ==
    /\ loader.status = "running"
    /\ TopFrame.phase = "deps"
    /\ TopFrame.pending = << >>
    /\ ~IsSome(loader.ret)
    /\ Unwrap(TopEntry).fails # "load"
    /\ loader' = [Returned(Result("Ok", TopFrame.id)) EXCEPT
                     !.loaded = Append(@, TopFrame.id)]
    /\ UNCHANGED << assembly, pipelines, pool, engine >>

(* ------------------------------------------------------- specifications *)

\* The collaborators before their first call.
OthersAtRest ==
    /\ pipelines = PipelinesAtRest([r \in Renderables |-> None])
    /\ pool = PoolAtRest
    /\ engine = EngineAtRest("Poll")
    /\ loader = LoaderAtRest

DefaultRenderer == [vertex_count |-> 3, vertex_buffers |-> << 101, 102 >>]

InitCall ==
    /\ pipeline_cache = {}
    /\ readers = [m \in MaterialIds |-> {}]
    /\ writer = [state |-> "idle", material |-> "m1"]
    /\ pc = "idle"
    /\ local = NoLocal
    /\ staging = None
    /\ todo = {}
    /\ log = << >>
    /\ device = None
    /\ command = None
    /\ pass = << >>

\* Assembly and rendering of one renderable, next to a thread that writes the
\* shared materials and game logic that reconfigures the provider.
Init ==
    /\ InitCall
    /\ OthersAtRest
    /\ provider \in ProviderStates
    /\ \E layout \in CatalogLayouts :
          materials = [m \in MaterialIds |-> IF m = "m1" THEN layout ELSE TintLayout]
    /\ matrix \in MatrixIds
    /\ renderer = DefaultRenderer

Build ==
    \/ BuildNoPipeline \/ BuildNoMaterial \/ BuildResolved \/ ReadFirst \/ AllocStaging
    \/ SemanticSkip \/ SemanticSliceFault \/ SemanticCopyFault \/ SemanticTransformRow
    \/ SemanticDelegate \/ SemanticDone
    \/ PropertySkip \/ PropertySliceFault \/ PropertyWrite \/ CommitStaging
    \/ AssembleResolve \/ ReadSecond

Next ==
    \/ Build
    \/ Render \/ DropCommand \/ SkipRenderable
    \/ ConfigureProvider
    \/ WriterRequest \/ WriterAcquire \/ WriterUpdate \/ WriterRelease

Spec == Init /\ [][Next]_vars

\* Assembly of one renderable whose provider is ready, over every generated
\* material layout; nothing else runs.
InitLayout ==
    /\ InitCall
    /\ OthersAtRest
    /\ provider = [key |-> Some(1), material |-> Some("m1")]
    /\ \E layout \in GeneratedLayouts \cup CatalogLayouts :
          materials = [m \in MaterialIds |-> IF m = "m1" THEN layout ELSE TintLayout]
    /\ matrix \in MatrixIds
    /\ renderer = DefaultRenderer

NextLayout ==
    \/ BuildResolved \/ ReadFirst \/ AllocStaging
    \/ SemanticSkip \/ SemanticSliceFault \/ SemanticCopyFault \/ SemanticTransformRow
    \/ SemanticDelegate \/ SemanticDone
    \/ PropertySkip \/ PropertySliceFault \/ PropertyWrite \/ CommitStaging
    \/ AssembleResolve \/ ReadSecond

SpecLayout == InitLayout /\ [][NextLayout]_vars

\* render over every command a caller can hold: the struct's fields are public.
HolderGroups == {0, 2}
BindGroupIds == {21}
BindPropertyNames == {"albedo", "normal"}
GeneratedHolders ==
    UNION {[1..n -> [group : HolderGroups,
                     bind_group : {None} \cup {Some(b) : b \in BindGroupIds}]] :
           n \in 0..MaxHolders}
GeneratedBindProperties ==
    UNION {[names -> [group_index : 0..MaxHolders]] : names \in SUBSET BindPropertyNames}
GeneratedVertexBuffers == {[k \in 1..n |-> 100 + k] : n \in 0..MaxVertexBuffers}
GeneratedInstanceBuffers ==
    {None} \cup {Some([buffer |-> b, size |-> 16, data |-> [i \in 1..16 |-> 0]]) :
                    b \in DeviceBufferIds}
GeneratedCommands ==
    [pipeline : PipelineKeys, material : {"m1"}, vertex_count : {0, MaxVertexCount},
     per_vertex_buffers : GeneratedVertexBuffers,
     per_instance_buffer : GeneratedInstanceBuffers]

InitRender ==
    /\ OthersAtRest
    /\ pipeline_cache = PipelineKeys
    /\ readers = [m \in MaterialIds |-> IF m = "m1" THEN {"command"} ELSE {}]
    /\ writer = [state |-> "idle", material |-> "m1"]
    /\ pc = "returned"
    /\ local = NoLocal
    /\ staging = None
    /\ todo = {}
    /\ log = << >>
    /\ device = None
    /\ pass = << >>
    /\ provider = [key |-> Some(1), material |-> Some("m1")]
    /\ matrix = "identity"
    /\ renderer = DefaultRenderer
    /\ \E holders \in GeneratedHolders, properties \in GeneratedBindProperties :
          materials = [m \in MaterialIds |->
                          IF m = "m1"
                          THEN [TransformLayout EXCEPT !.bind_group_holders = holders,
                                                       !.bind_properties = properties]
                          ELSE TintLayout]
    /\ \E cmd \in GeneratedCommands : command = Some(cmd)

NextRender == Render \/ RenderIndexFault

SpecRender == InitRender /\ [][NextRender]_vars

\* No renderable is being assembled: the state of the assembly while one of
\* its collaborators is looked at alone.
AssemblyAtRest ==
    /\ InitCall
    /\ provider = [key |-> None, material |-> None]
    /\ materials = [m \in MaterialIds |-> TintLayout]
    /\ matrix = "identity"
    /\ renderer = DefaultRenderer

\* obtain_pipeline calls of the renderables that share the cache.
InitCache ==
    /\ AssemblyAtRest
    /\ \E keys \in [Renderables -> RenderableKeys] : pipelines = PipelinesAtRest(keys)
    /\ pool = PoolAtRest
    /\ engine = EngineAtRest("Poll")
    /\ loader = LoaderAtRest

NextCache == CacheObtainNotReady \/ CacheObtainHit \/ CacheObtainMiss \/ CacheKeyChange

SpecCache == InitCache /\ [][NextCache]_vars

\* checkout and release calls of the pool's holders.
InitPool ==
    /\ AssemblyAtRest
    /\ pipelines = PipelinesAtRest([r \in Renderables |-> None])
    /\ pool = PoolAtRest
    /\ engine = EngineAtRest("Poll")
    /\ loader = LoaderAtRest

NextPool == PoolCheckoutIdle \/ PoolCheckoutAllocate \/ PoolRelease

SpecPool == InitPool /\ [][NextPool]_vars

\* The events winit hands to the closure of Engine::run, in either loop mode.
InitEngine ==
    /\ AssemblyAtRest
    /\ pipelines = PipelinesAtRest([r \in Renderables |-> None])
    /\ pool = PoolAtRest
    /\ \E crate \in EngineCrates, loop_mode \in LoopModes, interval \in FrameIntervals :
          /\ crate = "enter-core-lib" => (loop_mode = "Poll" /\ interval = 0)
          /\ engine = EngineStart(crate, loop_mode, interval)
    /\ loader = LoaderAtRest

NextEngine ==
    \/ OnMainEventsCleared \/ OnRedrawRequested \/ OnOccluded \/ OnResized
    \/ OnOtherEvent \/ OnCloseRequested

SpecEngine == InitEngine /\ [][NextEngine]_vars

\* One load_asset call on the root asset, over every database.
InitLoader ==
    /\ AssemblyAtRest
    /\ pipelines = PipelinesAtRest([r \in Renderables |-> None])
    /\ pool = PoolAtRest
    /\ engine = EngineAtRest("Poll")
    /\ \E database \in Databases : loader = LoaderWith(database)

NextLoader ==
    \/ LoaderStart \/ LoaderNotFound \/ LoaderProcessFails \/ LoaderProcessed
    \/ LoaderDescend \/ LoaderStackOverflow \/ LoaderDepLoaded \/ LoaderDepFailed
    \/ LoaderLoadFails \/ LoaderLoaded

\* The calling thread keeps running until load_asset returns.
SpecLoader == InitLoader /\ [][NextLoader]_vars /\ WF_vars(NextLoader)

(* ------------------------------------------------------------ properties *)

ProviderReady == IsSome(provider.key) /\ IsSome(provider.material)

WriteOps == {"slice", "write", "callback", "property"}
LogIndices(ops) == {i \in 1..Len(log) : log[i].op \in ops}

\* A transform row is mapped onto an attribute that is not 16 bytes wide.
HasNarrowRow(material) ==
    \E k \in InstanceKeys(material) \cap TransformKeys :
        SemanticRegion(material, k).size # 16

\* C1: build_rendering_command returns None exactly when the provider gives no
\* pipeline or no material, and Some otherwise; a provider that is not ready
\* never makes the call panic, take a lock, stage data or leave a command, and
\* the only panic of a ready call is the fail-fast one on a material whose
\* regions do not fit its buffer.
C1_NoneExactlyWhenNotReady ==
    /\ pc = "returned" => (IsSome(command) <=> ProviderReady)
    /\ ~ProviderReady =>
          /\ pc \in {"idle", "returned"}
          /\ ~IsSome(command) /\ ~IsSome(staging) /\ ~IsSome(device)
          /\ \A m \in MaterialIds : readers[m] = {}
    /\ pc = "panicked" =>
          /\ ProviderReady
          /\ ~RegionsFit(Unwrap(local.snapshot)) \/ HasNarrowRow(Unwrap(local.snapshot))
    /\ IsSome(command) =>
          /\ pc \in {"returned", "rendered"}
          /\ Unwrap(command).pipeline = Unwrap(provider.key)
          /\ IsSome(Unwrap(command).per_instance_buffer)

\* The pipeline is there, the material has not loaded: the call returned None.
C1_Witness ==
    /\ pc = "returned"
    /\ ~IsSome(command)
    /\ IsSome(provider.key)
    /\ ~IsSome(provider.material)

\* C2: one call allocates one staging buffer and commits it once; every slice
\* and write lies between the allocation and the commit, the staging buffer is
\* gone after the commit, the command's per_instance_buffer is the committed
\* allocation, and render binds that allocation and draws after the commit.
C2_WriteThenCommitThenDraw ==
    LET allocs == LogIndices({"alloc"})
        commits == LogIndices({"commit"})
        draws == LogIndices({"draw"})
    IN /\ Cardinality(allocs) <= 1
       /\ Cardinality(commits) <= 1
       /\ \A w \in LogIndices(WriteOps) :
             /\ \E a \in allocs : a < w
             /\ \A c \in commits : w < c
       /\ commits # {} => ~IsSome(staging)
       /\ IsSome(command) =>
             /\ Cardinality(allocs) = 1
             /\ Cardinality(commits) = 1
             /\ IsSome(Unwrap(command).per_instance_buffer)
             /\ Unwrap(command).per_instance_buffer = device
             /\ \A c \in commits :
                   Unwrap(Unwrap(command).per_instance_buffer).buffer = log[c].buffer
       /\ \A d \in draws :
             /\ commits # {}
             /\ \A c \in commits : c < d /\ log[d].buffer = log[c].buffer
       /\ pc = "rendered" =>
             /\ draws # {}
             /\ \E i \in 1..(Len(pass) - 1) :
                   /\ pass[i].cmd = "set_vertex_buffer"
                   /\ pass[i].index = Len(Unwrap(command).per_vertex_buffers)
                   /\ \A c \in commits : pass[i].resource = log[c].buffer

\* A command whose staging buffer took a row, a callback and a property has
\* been rendered.
C2_Witness ==
    /\ pc = "rendered"
    /\ LogIndices({"write"}) # {}
    /\ LogIndices({"callback"}) # {}
    /\ LogIndices({"property"}) # {}

\* C3: for a material whose regions are disjoint and inside the stride, every
\* write of the assembly lies in [0, stride): the logged writes end at or
\* before the stride and the bytes of the staging buffer past the stride keep
\* their initial content.
C3_WritesInsideStride ==
    ValidLayout(materials["m1"]) =>
        /\ \A w \in LogIndices(WriteOps) :
              /\ log[w].offset >= 0
              /\ log[w].offset + log[w].size <= materials["m1"].stride
        /\ IsSome(staging) =>
              \A i \in (Unwrap(staging).size + 1)..Unwrap(staging).capacity :
                  Unwrap(staging).data[i] = Unwrap(staging).fill

\* A valid material with a semantic entry and a property was staged into a
\* buffer larger than the stride, the last region ending at the stride.
C3_Witness ==
    /\ ValidLayout(materials["m1"])
    /\ pc = "assemble"
    /\ \E w \in LogIndices({"write", "callback"}) :
          log[w].offset + log[w].size = materials["m1"].stride
    /\ LogIndices({"property"}) # {}

\* C4 as stated: a material with a region that ends beyond the bytes allocated
\* for the stride, or with two overlapping regions, never gets a command: the
\* call fails fast instead.
C4_FailsFastOnBadLayout ==
    IsSome(command) =>
        /\ \A a \in LogIndices({"alloc"}), t \in DOMAIN Regions(materials["m1"]) :
              Regions(materials["m1"])[t].offset + Regions(materials["m1"])[t].size
                  <= log[a].size
        /\ RegionsDisjoint(materials["m1"])

\* The row of the world matrix a transform-row key stands for.
ExpectedRow(key) ==
    CASE key = "KEY_TRANSFORM_ROW_0" -> MatrixRows(matrix)[1]
      [] key = "KEY_TRANSFORM_ROW_1" -> MatrixRows(matrix)[2]
      [] key = "KEY_TRANSFORM_ROW_2" -> MatrixRows(matrix)[3]
      [] key = "KEY_TRANSFORM_ROW_3" -> MatrixRows(matrix)[4]

\* Identity rows 0..3 as 64 little-endian bytes: 1.0f32 is 00 00 80 3F.
IdentityRegion ==
    [i \in 1..64 |-> IF i \in {3, 23, 43, 63} THEN 128
                     ELSE IF i \in {4, 24, 44, 64} THEN 63 ELSE 0]

\* C5: in a valid material every instance-step entry keyed by transform row i
\* puts row i of the world matrix at its offset of the committed region; with
\* stride 64, rows at 0/16/32/48, no properties and the identity matrix the
\* committed 64 bytes are the identity's rows in order.
C5_TransformRowsAtOffsets ==
    IsSome(device) =>
        /\ ValidLayout(materials["m1"]) =>
              \A k \in InstanceKeys(materials["m1"]) \cap TransformKeys :
                  SubSeq(Unwrap(device).data,
                         materials["m1"].semantic_inputs[k].offset + 1,
                         materials["m1"].semantic_inputs[k].offset + 16)
                      = AsBytes(ExpectedRow(k))
        /\ (materials["m1"] = TransformLayout /\ matrix = "identity") =>
              Unwrap(device).data = IdentityRegion

\* The stride-64 material with the identity matrix has been committed and
\* returned in a command.
C5_Witness ==
    /\ materials["m1"] = TransformLayout
    /\ matrix = "identity"
    /\ pc = "returned"
    /\ IsSome(command)

\* The set_vertex_buffer commands of the pass, in the order they were recorded.
IsVertexBufferCommand(c) == c.cmd = "set_vertex_buffer"
VertexBufferBindings == SelectSeq(pass, IsVertexBufferCommand)

\* C6: render binds per-vertex buffer k at slot k, k = 0..n-1, in order; a
\* present per-instance buffer is bound next, at slot n, and an absent one
\* gives no further binding.
C6_VertexBufferSlots ==
    pc = "rendered" =>
        LET cmd == Unwrap(command)
            n == Len(cmd.per_vertex_buffers)
            bound == VertexBufferBindings
        IN /\ Len(bound) = n + (IF IsSome(cmd.per_instance_buffer) THEN 1 ELSE 0)
           /\ \A k \in 1..n :
                 bound[k].index = k - 1 /\ bound[k].resource = cmd.per_vertex_buffers[k]
           /\ IsSome(cmd.per_instance_buffer) =>
                 /\ bound[n + 1].index = n
                 /\ bound[n + 1].resource = Unwrap(cmd.per_instance_buffer).buffer

\* Two per-vertex buffers and a per-instance buffer have been bound.
C6_Witness ==
    /\ pc = "rendered"
    /\ Len(Unwrap(command).per_vertex_buffers) = 2
    /\ IsSome(Unwrap(command).per_instance_buffer)
    /\ Len(VertexBufferBindings) = 3

\* C7 as stated: render issues set_bind_group for every holder that has a
\* compiled bind group, at the holder's group index, and none for a holder
\* without one, whatever the material's bind properties are.
C7_EveryPresentHolderBound ==
    pc = "rendered" =>
        LET holders == materials[Unwrap(command).material].bind_group_holders
        IN /\ \A h \in 1..Len(holders) :
                 IsSome(holders[h].bind_group) =>
                     \E i \in 1..Len(pass) :
                         /\ pass[i].cmd = "set_bind_group"
                         /\ pass[i].index = holders[h].group
                         /\ pass[i].resource = Unwrap(holders[h].bind_group)
           /\ \A i \in 1..Len(pass) :
                 pass[i].cmd = "set_bind_group" =>
                     \E h \in 1..Len(holders) :
                         /\ IsSome(holders[h].bind_group)
                         /\ pass[i].index = holders[h].group
                         /\ pass[i].resource = Unwrap(holders[h].bind_group)

\* Position classes of the pass commands, in the order render must keep.
CommandRank(c) ==
    CASE c.cmd = "set_pipeline" -> 1
      [] c.cmd = "set_bind_group" -> 2
      [] c.cmd = "set_vertex_buffer" -> 3
      [] c.cmd = "draw" -> 4

\* C8: render records set_pipeline first, then the bind groups, then the
\* vertex buffers, then one draw as its last command, over vertices
\* 0..vertex_count and instances 0..1.
C8_PassOrder ==
    pc = "rendered" =>
        /\ Len(pass) >= 2
        /\ pass[1].cmd = "set_pipeline"
        /\ pass[1].resource = Unwrap(command).pipeline
        /\ \A i \in 2..Len(pass) : pass[i].cmd # "set_pipeline"
        /\ \A i, j \in 1..Len(pass) : i < j => CommandRank(pass[i]) <= CommandRank(pass[j])
        /\ \A i \in 1..Len(pass) : pass[i].cmd = "draw" <=> i = Len(pass)
        /\ pass[Len(pass)].first = 0
        /\ pass[Len(pass)].last = Unwrap(command).vertex_count
        /\ pass[Len(pass)].index = 0
        /\ pass[Len(pass)].resource = 1

\* A pass with bind groups, per-vertex buffers, a per-instance buffer and a
\* draw of a non-empty vertex range.
C8_Witness ==
    /\ pc = "rendered"
    /\ Unwrap(command).vertex_count = MaxVertexCount
    /\ \E i, j, k \in 1..Len(pass) :
          /\ pass[i].cmd = "set_bind_group"
          /\ pass[j].cmd = "set_bind_group" /\ i # j
          /\ pass[k].cmd = "set_vertex_buffer"

\* From the first read lock to the drop of the command.
GuardedSpan ==
    \/ pc \in {"alloc", "semantic", "property", "assemble", "read_second"}
    \/ IsSome(command)

\* C9: from the first read lock of build_rendering_command until the command
\* is dropped a read guard on that material is alive, no writer holds its
\* exclusive lock, and the material is what it was when it was locked.
C9_ReadLockHeldUntilDrop ==
    GuardedSpan =>
        /\ readers[Unwrap(local.material)] # {}
        /\ ~(writer.state = "held" /\ writer.material = Unwrap(local.material))
        /\ materials[Unwrap(local.material)] = Unwrap(local.snapshot)
        /\ IsSome(command) =>
              /\ "command" \in readers[Unwrap(command).material]
              /\ materials[Unwrap(command).material] = Unwrap(local.snapshot)

\* The command has been rendered while a writer waits for its material.
C9_Witness ==
    /\ pc = "rendered"
    /\ writer.state = "waiting"
    /\ writer.material = Unwrap(command).material
    /\ LogIndices({"property"}) # {}

CompileCount(key) ==
    Cardinality({i \in 1..Len(pipelines.compiles) : pipelines.compiles[i] = key})

\* C11: after any sequence of obtain_pipeline calls the cache holds at most one
\* compiled pipeline per key: a key is compiled at most once, it has an entry
\* exactly when it was compiled, and every pipeline a renderable was given is
\* still the entry of its key, so renderables that share a key hold the same
\* pipeline and the key's compile count is exactly 1.
C11_OnePipelinePerKey ==
    /\ \A key \in CacheKeys :
          /\ CompileCount(key) <= 1
          /\ IsSome(pipelines.entries[key]) <=> CompileCount(key) = 1
    /\ \A r \in Renderables :
          IsSome(pipelines.obtained[r]) =>
              LET o == Unwrap(pipelines.obtained[r]) IN
                  /\ pipelines.entries[o.key] = Some(o.pipeline)
                  /\ pipelines.compiles[o.pipeline] = o.key
                  /\ CompileCount(o.key) = 1
    /\ \A r1, r2 \in Renderables :
          (/\ IsSome(pipelines.obtained[r1]) /\ IsSome(pipelines.obtained[r2])
           /\ Unwrap(pipelines.obtained[r1]).key = Unwrap(pipelines.obtained[r2]).key)
              => pipelines.obtained[r1] = pipelines.obtained[r2]

\* Two renderables obtained a pipeline under the same key after another key
\* had been compiled first.
C11_Witness ==
    /\ IsSome(pipelines.obtained["r1"]) /\ IsSome(pipelines.obtained["r2"])
    /\ Unwrap(pipelines.obtained["r1"]).key = Unwrap(pipelines.obtained["r2"]).key
    /\ Unwrap(pipelines.obtained["r1"]).pipeline = 2
    /\ Len(pipelines.compiles) = 2

(* -------------------------------------- properties of the GenericBufferPool *)

\* C12: after any sequence of checkout and release operations no device buffer
\* is held by two holders at once: no two live checkouts share a buffer, and a
\* buffer that is checked out is in no idle set, so no checkout can return it
\* before its release.
C12_NoBufferHeldTwice ==
    /\ \A h1, h2 \in pool.held : h1 # h2 => h1.buffer # h2.buffer
    /\ \A h \in pool.held : h.buffer \notin pool.idle

\* Both holders hold a buffer, and the last checkout reused a released one.
C12_Witness ==
    /\ {h.holder : h \in pool.held} = PoolHolders
    /\ IsSome(pool.last)
    /\ Unwrap(pool.last).op = "checkout" /\ ~Unwrap(pool.last).allocated

\* The last operation is a checkout that directly followed a release and
\* asked for the released buffer's usage.
CheckoutAfterRelease ==
    /\ IsSome(pool.last)
    /\ Unwrap(pool.last).op = "checkout"
    /\ IsSome(Unwrap(pool.last).released)
    /\ Unwrap(pool.last).usage = Unwrap(Unwrap(pool.last).released).usage

LastCheckout == Unwrap(pool.last)
LastReleased == Unwrap(Unwrap(pool.last).released)

KeyEvents(key, ops) == {i \in 1..Len(log) : log[i].key = key /\ log[i].op \in ops}

\* The slice taken right before entry i of the log.
SliceBefore(i, offset, size) ==
    /\ i > 1
    /\ log[i - 1].op = "slice"
    /\ log[i - 1].key = log[i].key
    /\ log[i - 1].offset = offset
    /\ log[i - 1].size = size

\* C14: when build_rendering_command returns None, the frame buffer allocator
\* has performed no staging allocation and no commit during the call and
\* copy_semantic_per_instance_input was not invoked: the call's log is empty
\* and neither a staging buffer nor a device allocation exists.
C14_NoneHasNoEffect ==
    (pc = "returned" /\ ~IsSome(command)) =>
        /\ LogIndices({"alloc", "commit", "callback"}) = {}
        /\ LogIndices(WriteOps) = {}
        /\ ~IsSome(staging)
        /\ ~IsSome(device)

\* A call returned None for a provider without a pipeline, after an earlier
\* call had compiled one.
C14_Witness ==
    /\ pc = "returned"
    /\ ~IsSome(command)
    /\ ~IsSome(provider.key)
    /\ pipeline_cache # {}

\* The semantic loop has visited every entry.
SemanticLoopDone == pc \in {"property", "assemble", "read_second", "returned"}

\* The four transform-row keys.
RowKeys ==
    {"KEY_TRANSFORM_ROW_0", "KEY_TRANSFORM_ROW_1", "KEY_TRANSFORM_ROW_2",
     "KEY_TRANSFORM_ROW_3"}

\* C15: a semantic entry whose step mode is not Instance causes no slice, no
\* write and no callback; an Instance entry under one of the four
\* transform-row keys is written by the core, once, and never delegated; an
\* Instance entry under any other key is never written by the core and is
\* delegated to copy_semantic_per_instance_input exactly once, with the slice
\* at the entry's offset and of its attribute's size.
C15_SemanticDispatch ==
    LET m == materials["m1"] IN
    \A key \in DOMAIN m.semantic_inputs :
        LET entry == m.semantic_inputs[key]
            size == FormatSize(m.elements[entry.index + 1])
            writes == KeyEvents(key, {"write"})
            callbacks == KeyEvents(key, {"callback"})
        IN /\ entry.step_mode # "Instance" =>
                 KeyEvents(key, {"slice", "write", "callback"}) = {}
           /\ (entry.step_mode = "Instance" /\ key \in RowKeys) =>
                 /\ callbacks = {}
                 /\ Cardinality(writes) <= 1
                 /\ SemanticLoopDone => Cardinality(writes) = 1
                 /\ \A i \in writes : SliceBefore(i, entry.offset, size)
           /\ (entry.step_mode = "Instance" /\ key \notin RowKeys) =>
                 /\ writes = {}
                 /\ Cardinality(callbacks) <= 1
                 /\ SemanticLoopDone => Cardinality(callbacks) = 1
                 /\ \A i \in callbacks :
                       /\ log[i].offset = entry.offset
                       /\ log[i].size = size
                       /\ SliceBefore(i, entry.offset, size)

\* A material with a vertex-step entry, a transform row and a custom key has
\* been through the semantic loop.
C15_Witness ==
    /\ SemanticLoopDone
    /\ \E key \in DOMAIN materials["m1"].semantic_inputs :
          materials["m1"].semantic_inputs[key].step_mode # "Instance"
    /\ \E key \in RowKeys : KeyEvents(key, {"write"}) # {}
    /\ KeyEvents("KEY_CUSTOM", {"callback"}) # {}

\* The property loop has visited every property.
PropertyLoopDone == pc \in {"assemble", "read_second", "returned"}

\* What C16 says of a state: a property with a value is written once, at its
\* offset and with the size of its value's format, and those bytes reach the
\* device when the layout is valid; a property without a value leaves no
\* trace in the log.
C16_State ==
    LET m == materials["m1"] IN
    \A p \in DOMAIN m.per_instance_properties :
        LET property == m.per_instance_properties[p]
            writes == KeyEvents(p, {"property"})
        IN /\ ~IsSome(property.value) =>
                 KeyEvents(p, {"slice", "write", "callback", "property"}) = {}
           /\ IsSome(property.value) =>
                 LET bytes == AsBytes(Unwrap(property.value))
                     size == FormatSize(ValueFormat(Unwrap(property.value)))
                 IN /\ Cardinality(writes) <= 1
                    /\ PropertyLoopDone => Cardinality(writes) = 1
                    /\ \A i \in writes :
                          /\ log[i].offset = property.offset
                          /\ log[i].size = size
                          /\ SliceBefore(i, property.offset, size)
                    /\ (ValidLayout(m) /\ IsSome(device)) =>
                          SubSeq(Unwrap(device).data, property.offset + 1,
                                 property.offset + size) = bytes

\* What C16 says of a step: visiting a property without a value changes
\* neither the staging buffer nor the log.
C16_SkipStep ==
    \A p \in todo \ todo' :
        (/\ pc = "property" /\ pc' = "property"
         /\ ~IsSome(materials["m1"].per_instance_properties[p].value))
            => staging' = staging /\ log' = log

\* C16: each per-instance property with a present value is written once at
\* its declared offset with the size of its value's vertex format, and a
\* property with no value causes no write, leaving the staged bytes as they
\* were.
C16_PropertiesWrittenOnce == []C16_State /\ [][C16_SkipStep]_vars

\* A material with a valued property and a property without value was
\* committed (the tint layout).
C16_Witness ==
    /\ PropertyLoopDone
    /\ IsSome(device)
    /\ ValidLayout(materials["m1"])
    /\ KeyEvents("tint", {"property"}) # {}
    /\ \E p \in DOMAIN materials["m1"].per_instance_properties :
          ~IsSome(materials["m1"].per_instance_properties[p].value)

(* -------------------------------------------- properties of the event loop *)

\* The positions of a step in what the handler ran for the last event.
StepIndices(step) == {i \in 1..Len(engine.steps) : engine.steps[i] = step}

\* C17: every run of the render system is preceded, within the same handler
\* invocation, by an update of the object hierarchy's matrices, in both loop
\* modes.
C17_MatricesBeforeRender ==
    \A i \in StepIndices("render_system") :
        \E j \in StepIndices("update_object_matrices") : j < i

\* C18: the render system runs at most once per handled event and only from
\* the event of the configured loop mode: in Poll mode from MainEventsCleared,
\* never from RedrawRequested; in Wait mode from RedrawRequested, never from
\* MainEventsCleared; never from any other event.
C18_RenderOncePerModeEvent ==
    /\ Cardinality(StepIndices("render_system")) <= 1
    /\ StepIndices("render_system") # {} =>
          \/ engine.loop_mode = "Poll" /\ engine.event = "MainEventsCleared"
          \/ engine.loop_mode = "Wait" /\ engine.event = "RedrawRequested"

\* In Wait mode a RedrawRequested has rendered the second frame.
C18_Witness ==
    /\ engine.loop_mode = "Wait"
    /\ engine.event = "RedrawRequested"
    /\ StepIndices("render_system") # {}
    /\ engine.frames = 2

\* C20: the render system never runs while the most recent Occluded event of
\* the engine's window reported occluded = true, in either loop mode.
C20_NoRenderWhileOccluded ==
    StepIndices("render_system") # {} => engine.occluded_event # Some(TRUE)

\* C21: the render system never runs while the most recently reported inner
\* size of the engine's window (from Resized or ScaleFactorChanged) has zero
\* width or zero height, in either loop mode.
C21_NoRenderAtZeroSize ==
    (StepIndices("render_system") # {} /\ IsSome(engine.size_event)) =>
        /\ Unwrap(engine.size_event).width # 0
        /\ Unwrap(engine.size_event).height # 0

\* The last event was a Resized or ScaleFactorChanged of the engine's window,
\* handled by the loop of enter-core.
OwnResizeHandled(e) ==
    /\ e.crate = "enter-core"
    /\ e.event \in {"Resized", "ScaleFactorChanged"}
    /\ e.window = "engine_window"

HasZeroSide(size) == size.width = 0 \/ size.height = 0
RanStep(e, step) == \E i \in 1..Len(e.steps) : e.steps[i] = step

\* What C22 says of a state: after such an event the screen manager holds the
\* reported size, window_occluded is true exactly when a side is zero, the
\* graphics context and the render manager were resized exactly when no side
\* is zero, and neither ever has a zero side.
C22_State ==
    /\ ~HasZeroSide(engine.surface)
    /\ ~HasZeroSide(engine.render_target)
    /\ OwnResizeHandled(engine) =>
          LET size == Unwrap(engine.size_event) IN
              /\ engine.screen = size
              /\ \/ RanStep(engine, "screen_mgr.update_size")
                 \/ RanStep(engine, "screen_mgr.update_scale_factor")
              /\ engine.window_occluded <=> HasZeroSide(size)
              /\ RanStep(engine, "gfx_ctx.resize") <=> ~HasZeroSide(size)
              /\ RanStep(engine, "render_mgr.resize") <=> ~HasZeroSide(size)
              /\ ~HasZeroSide(size) =>
                    engine.surface = size /\ engine.render_target = size

\* What C22 says of a step: an event that reports a zero side leaves the
\* graphics context and the render manager as they were.
C22_Step ==
    (OwnResizeHandled(engine') /\ HasZeroSide(Unwrap(engine'.size_event))) =>
        /\ engine'.surface = engine.surface
        /\ engine'.render_target = engine.render_target

\* C22: a Resized or ScaleFactorChanged event of the engine's window always
\* updates the screen manager; the graphics context and the render manager are
\* resized only when width and height are both non-zero and never to a zero
\* dimension; the event sets window_occluded to true exactly when a dimension
\* is zero.
C22_ResizeSkipsZero == []C22_State /\ [][C22_Step]_vars

\* A ScaleFactorChanged of the engine's window reported 800 x 0 after the
\* surface had been resized to another size.
C22_Witness ==
    /\ OwnResizeHandled(engine)
    /\ engine.event = "ScaleFactorChanged"
    /\ engine.size_event = Some([width |-> 800, height |-> 0])
    /\ engine.window_occluded
    /\ engine.frames > 0

\* The last event was a MainEventsCleared that ran a frame.
FrameExecuted(e) ==
    /\ e.crate = "enter-core"
    /\ e.event = "MainEventsCleared"
    /\ Len(e.steps) >= 2
    /\ e.steps[1] = "time_mgr.update"
    /\ e.steps[2] = "update_object_matrices"

\* What the handler keeps between events.
EngineState(e) ==
    << e.control_flow, e.window_occluded, e.frames, e.screen, e.surface,
       e.render_target, e.last_frame_time, e.interval >>

\* C23: in Poll mode a MainEventsCleared event executes a frame only if at
\* least the target frame interval has elapsed since last_frame_time, which
\* then becomes the time of that event; last_frame_time changes in no other
\* step, so two consecutive frames are at least one interval apart; and a
\* MainEventsCleared that is skipped changes no engine state.
C23_Step ==
    (engine.crate = "enter-core" /\ engine.loop_mode = "Poll") =>
        /\ FrameExecuted(engine') =>
              /\ engine'.now - engine.last_frame_time >= engine.interval
              /\ engine'.last_frame_time = engine'.now
        /\ engine'.last_frame_time # engine.last_frame_time => FrameExecuted(engine')
        /\ (engine'.event = "MainEventsCleared" /\ engine'.steps = << >>) =>
              EngineState(engine') = EngineState(engine)

C23_FramesAnIntervalApart == [][C23_Step]_vars

\* With an interval of two ticks the second frame ran at tick 4, after a
\* MainEventsCleared in between had been skipped.
C23_Witness ==
    /\ engine.loop_mode = "Poll"
    /\ engine.interval = 2
    /\ FrameExecuted(engine)
    /\ engine.frames = 2
    /\ engine.now = 4
    /\ engine.last_frame_time = 4

\* What C24 says of a state: control flow is Exit exactly when the last event
\* handled is CloseRequested of the engine's own window.
C24_State ==
    engine.control_flow = "Exit"
        <=> (engine.event = "CloseRequested" /\ engine.window = "engine_window")

\* What C24 says of a step: an event that carries another window id sets no
\* Exit and changes neither window_occluded, the screen manager nor the
\* surface size.
C24_Step ==
    engine'.window = "other_window" =>
        /\ engine'.control_flow # "Exit"
        /\ engine'.window_occluded = engine.window_occluded
        /\ engine'.screen = engine.screen
        /\ engine'.surface = engine.surface
        /\ engine'.render_target = engine.render_target

\* C24: the event loop sets control flow to Exit exactly when it handles
\* CloseRequested for the engine's own window; a window event with any other
\* window id changes neither control flow to Exit nor window_occluded, the
\* screen manager or the surface size.
C24_ExitOnlyOnOwnClose == []C24_State /\ [][C24_Step]_vars

\* The loop of enter-core-lib exits on CloseRequested after a resize to a zero
\* width.
C24_Witness ==
    /\ engine.crate = "enter-core-lib"
    /\ engine.control_flow = "Exit"
    /\ engine.screen.width = 0

(* ------------------------------------------- properties of the material lock *)

\* The second read() of the call has to wait.
SecondReadBlocked == pc = "read_second" /\ ~CanRead(Unwrap(local.second))

\* C19: build_rendering_command always returns when another thread requests
\* the material's exclusive lock during the call: whenever the second read()
\* has to wait for a writer, that writer holds the lock or can take it, so the
\* wait ends; the call never waits for a writer that itself waits for the
\* call's first read guard.
C19_BuildAlwaysReturns ==
    SecondReadBlocked => (writer.state = "held" \/ CanWrite(writer.material))

(* -------------------------------------------- properties of the asset loader *)

\* The ids the processed source of `id` lists: none when the id is missing or
\* its processing fails.
Dependencies(database, id) ==
    IF IsSome(database[id]) /\ Unwrap(database[id]).fails # "process"
    THEN {Unwrap(database[id]).deps[i] : i \in 1..Len(Unwrap(database[id]).deps)}
    ELSE {}

RECURSIVE ReachableIn(_, _, _)
ReachableIn(database, ids, n) ==
    IF n = 0 THEN ids
    ELSE ReachableIn(database,
                     ids \cup UNION {Dependencies(database, id) : id \in ids}, n - 1)

\* The ids reachable from `ids` over the dependency relation, `ids` included.
ReachableFrom(database, ids) == ReachableIn(database, ids, Cardinality(AssetIds))

Reachable(database) == ReachableFrom(database, {RootAsset})

\* No asset reachable from the root depends on itself, directly or not.
Acyclic(database) ==
    \A id \in Reachable(database) :
        id \notin ReachableFrom(database, Dependencies(database, id))

MissingReachable(database) == {id \in Reachable(database) : ~IsSome(database[id])}
FailingReachable(database) ==
    {id \in Reachable(database) :
        IsSome(database[id]) /\ Unwrap(database[id]).fails # "none"}

LoaderDone == loader.status = "done"

\* Every dependency of an asset was loaded before each load of the asset.
DependenciesLoadedFirst ==
    \A i \in 1..Len(loader.loaded) :
        \A d \in Dependencies(loader.database, loader.loaded[i]) :
            \E j \in 1..(i - 1) : loader.loaded[j] = d

\* Ok is returned only after every transitive dependency was loaded, each
\* before the asset that needs it.
OkOnlyAfterDependencies ==
    (LoaderDone /\ Unwrap(loader.ret).kind = "Ok") =>
        /\ MissingReachable(loader.database) = {}
        /\ FailingReachable(loader.database) = {}
        /\ \A id \in Reachable(loader.database) :
              \E i \in 1..Len(loader.loaded) : loader.loaded[i] = id
        /\ loader.loaded[Len(loader.loaded)] = RootAsset
        /\ DependenciesLoadedFirst

\* C25 as stated: over an acyclic database load_asset returns
\* Err(AssetNotFound) whenever the id or a transitively reachable dependency is
\* missing, and Ok only after every transitive dependency was loaded.
C25_MissingGivesAssetNotFound ==
    /\ (LoaderDone /\ Acyclic(loader.database)
            /\ MissingReachable(loader.database) # {}) =>
          Unwrap(loader.ret).kind = "AssetNotFound"
    /\ OkOnlyAfterDependencies

\* What the amended C25 says of a state: over an acyclic database the
\* recursion never overflows the stack and no asset is being loaded inside its
\* own load; a missing reachable asset gives an error, AssetNotFound when no
\* reachable asset fails to process or load; AssetNotFound names a reachable
\* missing id; Ok comes only after every dependency.
C25_State ==
    /\ Acyclic(loader.database) =>
          /\ loader.status # "overflow"
          /\ \A i, j \in 1..Len(loader.stack) :
                loader.stack[i].id = loader.stack[j].id => i = j
    /\ (LoaderDone /\ Acyclic(loader.database)
            /\ MissingReachable(loader.database) # {}) =>
          /\ Unwrap(loader.ret).kind # "Ok"
          /\ FailingReachable(loader.database) = {} =>
                Unwrap(loader.ret).kind = "AssetNotFound"
    /\ (LoaderDone /\ Unwrap(loader.ret).kind = "AssetNotFound") =>
          Unwrap(loader.ret).id \in MissingReachable(loader.database)
    /\ OkOnlyAfterDependencies

\* C25, amended: for every database whose dependency relation reachable from
\* id is acyclic, load_asset(id) terminates; when id or a reachable dependency
\* is missing it returns an error, which is Err(AssetNotFound) unless a
\* reachable asset fails to process or load; and it returns Ok only after
\* every transitive dependency has been loaded, dependencies first.
C25_LoadTerminates ==
    /\ []C25_State
    /\ Acyclic(loader.database) ~> LoaderDone

\* "a" needs "b" and "c", "b" needs "c": Ok after c, b, c, a were loaded.
C25_Witness ==
    /\ LoaderDone
    /\ Unwrap(loader.ret) = Result("Ok", RootAsset)
    /\ Unwrap(loader.database["a"]).deps = << "b", "c" >>
    /\ Unwrap(loader.database["b"]).deps = << "c" >>
    /\ loader.loaded = << "c", "b", "c", "a" >>

====
